---- MODULE Spec2Model ----
(***************************************************************************)
(* Inspection line controller of Raspi-Router (src/main.py, identical in   *)
(* src/core/controller.py): the polling loop InspectionSystem.run, one     *)
(* tick of run_state_machine, the background thread process_piece, the     *)
(* ejection policy _has_imperfections and GPIOController.                  *)
(*                                                                         *)
(* Time.  The code stores absolute time stamps (time.time()) and compares  *)
(* current_time - stamp with a threshold.  The model stores, for each      *)
(* stamp, the time elapsed since it was taken, in milliseconds; one loop   *)
(* iteration (run_state_machine, then time.sleep(UI_REFRESH_RATE)) adds    *)
(* UI_REFRESH_RATE_MS to every elapsed time.  An elapsed time stops        *)
(* growing once it is past every threshold it is compared with.  NoTime    *)
(* models the stamp None.                                                  *)
(***************************************************************************)
EXTENDS Integers, Sequences, FiniteSets, TLC

\* ------------------------------------------------------------------ bounds
MaxThreads == 2
MaxOvertake == 1
MaxErrors == 1
MaxPreds == 2
MaxSize == 2
MaxAge == 2
MaxHistory == 3     \* the length MAX_HISTORY at which the history is trimmed
MaxFailures == 2    \* error_count is followed up to this value
MaxChecks == 1      \* the calls of check_all by the loop that are followed

\* ------------------------------------------------------- program constants
UI_REFRESH_RATE_MS == 50
SENSOR2_WAIT_TIME_MS == 500
SOLENOID_DELAY_MS == 500
SOLENOID_START_DELAY_MS == 300
EJECTION_TIME_MS == 500
POST_EJECTION_DELAY_MS == 500

NoTime == -1

\* confidence in units of 0.01, area in units of 0.0001
EJECTION_THRESHOLDS ==
    [confidence_min |-> 1, area_max |-> 1, critical_count |-> 0,
     major_count |-> 0, total_defects |-> 1]

Severities == {"critical", "major", "minor", "negligible"}

Threads == 1..MaxThreads

VARIABLES
    \* InspectionSystem.run / cleanup
    lpc,                        \* position of the main thread
    running,
    \* InspectionSystem state (src/main.py:74-104)
    piece_in_progress,
    waiting_for_sensor2,
    sensor2_check_time,
    processing_thread,          \* 0 models None
    analysis_in_progress,
    processing_complete,
    solenoid_deactivation_time,
    solenoid_activation_time,
    last_sensor1_state,
    ejection_start_time,
    post_ejection_start_time,
    ejection_in_progress,
    post_ejection_delay,
    solenoid_locked,
    wait_warning_shown,
    total_errors,
    error_alerts,               \* alert messages of run_state_machine's except
    \* whether time.time() - last_network_check is over NETWORK_CHECK_INTERVAL
    \* ("old") or not ("recent"), and the calls of check_all so far
    last_network_check,
    network_checks,
    \* ui.current_status
    ui_state,
    ui_alert,
    \* GPIOController
    solenoid_state,
    ejection_state,
    gpio_released,
    \* process_piece threads: position and the exception being handled
    tpc,
    texc,
    overtaken,
    \* observations of the run (history, never read by the controller);
    \* probe names the group of observations a specification records
    probe,
    sensor1,
    s1HighFor,
    s1LowFor,
    lastHighLong,
    edgesTracked,
    lastTickTracked,
    ejectorOnFor,
    lastEjectorPulse,
    spawnRefused,
    in_s1,
    in_s2,
    in_ai,
    faulted,
    warnings,
    \* ejection policy evaluated on its own
    thresholds,
    results,
    decision,
    first_call,
    \* ImageCache: entries in dict order, each with its data, the time
    \* since its timestamp and its size
    cache,
    current_size,
    \* observations of the cache: the last call and what get returned, the
    \* time since each key was last stored, the keys by last use
    last_op,
    cache_ret,
    since_put,
    use_order,
    \* NetworkManager: status and error_count of each endpoint, the history
    status,
    connection_history,
    \* observations of the checks: the endpoint of the last check, and a
    \* bit that every check flips
    last_checked,
    check_parity,
    \* the outcome of the last check of each endpoint, and the number of
    \* failed checks since its last success
    last_ok,
    fail_run,
    \* the asyncio variant (src/src/system): SystemState.error_state and
    \* processing_active, and where process_cycle is suspended; its other
    \* fields are piece_in_progress, waiting_for_sensor2, sensor2_check_time
    error_state,
    processing_active,
    cycle

ctrlVars == <<lpc, running, piece_in_progress, waiting_for_sensor2,
              sensor2_check_time, processing_thread, analysis_in_progress,
              processing_complete, solenoid_deactivation_time,
              solenoid_activation_time, last_sensor1_state,
              ejection_start_time, post_ejection_start_time,
              ejection_in_progress, post_ejection_delay, solenoid_locked,
              wait_warning_shown, total_errors, error_alerts, ui_state,
              ui_alert, solenoid_state, ejection_state, gpio_released,
              tpc, texc, overtaken, last_network_check, network_checks>>

obsVars == <<probe, sensor1, s1HighFor, s1LowFor, lastHighLong, edgesTracked,
             lastTickTracked, ejectorOnFor, lastEjectorPulse, spawnRefused,
             in_s1, in_s2, in_ai, faulted, warnings>>

policyVars == <<thresholds, results, decision, first_call>>

cacheVars == <<cache, current_size, last_op, cache_ret, since_put, use_order>>

netVars == <<status, connection_history, last_checked, check_parity, last_ok,
             fail_run>>

asyncVars == <<error_state, processing_active, cycle>>

libVars == <<cacheVars, netVars, asyncVars>>

vars == <<ctrlVars, obsVars, policyVars, libVars>>

\* ------------------------------------------------------- ejection policy


RECURSIVE CountSeverity(_, _)
CountSeverity(preds, sev) ==
    IF preds = <<>> THEN 0
    ELSE (IF Head(preds).severity = sev THEN 1 ELSE 0)
         + CountSeverity(Tail(preds), sev)

\* ImageProcessor._summarize_predictions: severity_counts of a prediction list
SummarizePredictions(preds) == [s \in Severities |-> CountSeverity(preds, s)]

\* a results dict without predictions (None, {} or no 'predictions' key)
NoResults ==
    [present |-> FALSE, predictions |-> <<>>,
     severity_counts |-> SummarizePredictions(<<>>)]

RECURSIVE SumCounts(_, _)
SumCounts(counts, sevs) ==
    IF sevs = {} THEN 0
    ELSE LET s == CHOOSE x \in sevs : TRUE
         IN counts[s] + SumCounts(counts, sevs \ {s})

\* the for loop of _has_imperfections: first prediction over a threshold
RECURSIVE AnyPredictionOver(_, _)
AnyPredictionOver(preds, th) ==
    IF preds = <<>> THEN FALSE
    ELSE IF Head(preds).confidence > th.confidence_min THEN TRUE
    ELSE IF Head(preds).area > th.area_max THEN TRUE
    ELSE AnyPredictionOver(Tail(preds), th)

\* a total that has to exceed the threshold
TotalDefectsExceeded(total, th) == total > th.total_defects

TotalDefectsReached(total, th) == total >= th.total_defects

\* a critical count that only has to reach the threshold
CriticalReached(critical, th) == critical >= th.critical_count

CriticalOver(critical, th) == critical > th.critical_count

HasImperfections(res, th) ==
    IF ~res.present THEN TRUE
    ELSE IF AnyPredictionOver(res.predictions, th) THEN TRUE
    ELSE LET severity_counts == res.severity_counts
             critical_defects == severity_counts["critical"]
             major_defects == severity_counts["major"]
             total_defects == SumCounts(severity_counts, Severities)
         IN IF CriticalOver(critical_defects, th) THEN TRUE
            ELSE IF major_defects > th.major_count THEN TRUE
            ELSE IF TotalDefectsReached(total_defects, th) THEN TRUE
            ELSE FALSE

\* ImageProcessor.CONFIDENCE_THRESHOLDS and the area limits of
\* _estimate_severity, in the same units
CONFIDENCE_HIGH == 85
CONFIDENCE_MEDIUM == 65
CONFIDENCE_LOW == 50
AREA_LARGE == 1000
AREA_MEDIUM == 500

EstimateSeverity(confidence, area) ==
    IF confidence >= CONFIDENCE_HIGH
    THEN (IF area > AREA_LARGE THEN "critical"
          ELSE IF area > AREA_MEDIUM THEN "major" ELSE "minor")
    ELSE IF confidence >= CONFIDENCE_MEDIUM
    THEN (IF area > AREA_LARGE THEN "major" ELSE "minor")
    ELSE "negligible"

\* insertion into a list sorted by confidence, highest first
RECURSIVE InsertByConfidence(_, _)
InsertByConfidence(p, sorted) ==
    IF sorted = <<>> THEN <<p>>
    ELSE IF p.confidence >= Head(sorted).confidence THEN <<p>> \o sorted
    ELSE <<Head(sorted)>> \o InsertByConfidence(p, Tail(sorted))

\* the loop of _process_predictions: drop low confidence, add metadata, sort
RECURSIVE ProcessedPreds(_)
ProcessedPreds(raw) ==
    IF raw = <<>> THEN <<>>
    ELSE LET p == Head(raw)
             rest == ProcessedPreds(Tail(raw))
         IN IF p.confidence < CONFIDENCE_LOW THEN rest
            ELSE InsertByConfidence(
                     [confidence |-> p.confidence, area |-> p.area,
                      severity |-> EstimateSeverity(p.confidence, p.area)],
                     rest)

\* the dict _process_predictions returns for a list of processed predictions
Summarized(preds) ==
    [present |-> TRUE, predictions |-> preds,
     severity_counts |-> SummarizePredictions(preds)]

ProcessPredictions(raw) == Summarized(ProcessedPreds(raw))

\* what the inference service can answer to one upload: no usable answer
\* (analyze_image returns None), or a list of raw predictions
RawPrediction == [confidence : {30, 90}, area : {1600}]
RawResponses == {<<>>} \cup {<<p>> : p \in RawPrediction}

\* ------------------------------------------------------------ time stamps

Min(a, b) == IF a < b THEN a ELSE b

\* the elapsed time of a stamp after one more time.sleep(UI_REFRESH_RATE);
\* cap is the first value past which no comparison tells two stamps apart
Elapse(t, cap) == IF t = NoTime THEN NoTime ELSE Min(t + UI_REFRESH_RATE_MS, cap)

\* the same for a stamp that the code next writes before it reads it: its
\* age cannot be observed, and it is kept as fully elapsed
Age(t, cap, live) ==
    IF t = NoTime THEN NoTime
    ELSE IF live THEN Min(t + UI_REFRESH_RATE_MS, cap)
    ELSE cap

\* ------------------------------------------------------------------ threads

IsAlive(t) == t # 0 /\ tpc[t] # "none"

AliveThreads == {t \in Threads : tpc[t] # "none"}

\* a controller that starts a thread without asking whether one is alive
CanSpawnUnguarded == TRUE

\* the guard in front of threading.Thread(...).start()
CanSpawn == ~IsAlive(processing_thread)

FreeThreads == {t \in Threads : tpc[t] = "none"}

NewThread == CHOOSE t \in FreeThreads : \A u \in FreeThreads : t <= u

\* Scheduling.  Inside get_image and analyze_image the thread waits for the
\* camera and the inference service for as long as they take.  Anywhere else
\* it is runnable, and it runs while the main thread sleeps: the loop gets at
\* most MaxOvertake iterations in between two statements of the thread.
Waiting == {"get_image", "analyze"}

Runnable(t) == tpc[t] \notin (Waiting \cup {"none"})

LoopMayRun == \A t \in Threads : Runnable(t) => overtaken[t] < MaxOvertake

\* -------------------------------------------------------------------- Init

CtrlInit ==
    /\ lpc = "run"
    /\ running = TRUE
    /\ piece_in_progress = FALSE
    /\ waiting_for_sensor2 = FALSE
    /\ sensor2_check_time = NoTime
    /\ processing_thread = 0
    /\ analysis_in_progress = FALSE
    /\ processing_complete = TRUE
    /\ solenoid_deactivation_time = NoTime
    /\ solenoid_activation_time = NoTime
    /\ last_sensor1_state = FALSE
    /\ ejection_start_time = NoTime
    /\ post_ejection_start_time = NoTime
    /\ ejection_in_progress = FALSE
    /\ post_ejection_delay = FALSE
    /\ solenoid_locked = FALSE
    /\ wait_warning_shown = FALSE
    /\ total_errors = 0
    /\ error_alerts = 0
    /\ ui_state = "normal"
    /\ ui_alert = "None"
    /\ solenoid_state = FALSE
    /\ ejection_state = FALSE
    /\ gpio_released = FALSE
    /\ tpc = [t \in Threads |-> "none"]
    /\ texc = [t \in Threads |-> "None"]
    /\ overtaken = [t \in Threads |-> 0]
    /\ last_network_check = "recent"
    /\ network_checks = 0

ObsInit(p) ==
    /\ probe = p
    /\ sensor1 = FALSE
    /\ s1HighFor = 0
    /\ s1LowFor = SOLENOID_DELAY_MS
    /\ lastHighLong = FALSE
    /\ edgesTracked = TRUE
    /\ lastTickTracked = TRUE
    /\ ejectorOnFor = NoTime
    /\ lastEjectorPulse = NoTime
    /\ spawnRefused = FALSE
    /\ in_s1 = FALSE
    /\ in_s2 = FALSE
    /\ in_ai = FALSE
    /\ faulted = FALSE
    /\ warnings = 0

PolicyIdle ==
    /\ thresholds = EJECTION_THRESHOLDS
    /\ results = NoResults
    /\ decision = "unset"
    /\ first_call = [results |-> NoResults, decision |-> "unset", other |-> FALSE]

\* ImageCache.__init__
CacheIdle ==
    /\ cache = <<>>
    /\ current_size = 0
    /\ last_op = [op |-> "none", key |-> "a", data |-> <<>>]
    /\ cache_ret = [hit |-> FALSE, data |-> <<>>]
    /\ since_put = [k \in {"a", "b", "c"} |-> NoTime]
    /\ use_order = <<>>

\* NetworkManager.__init__
NetIdle ==
    /\ status = [e \in {"internet", "camera", "ai_server"} |->
                    [status |-> "Unknown", error_count |-> 0]]
    /\ connection_history = <<>>
    /\ last_checked = "none"
    /\ check_parity = 0
    /\ last_ok = [e \in {"internet", "camera", "ai_server"} |-> "none"]
    /\ fail_run = [e \in {"internet", "camera", "ai_server"} |-> 0]

\* SystemState()
AsyncIdle ==
    /\ error_state = FALSE
    /\ processing_active = FALSE
    /\ cycle = [at |-> "sleep", from |-> "none"]

LibIdle == CacheIdle /\ NetIdle /\ AsyncIdle

Init == CtrlInit /\ ObsInit("ejector") /\ PolicyIdle /\ LibIdle

\* ------------------------------------------- process_piece (the thread)

AnalysisFrame == UNCHANGED <<lpc, running, piece_in_progress, waiting_for_sensor2,
                           sensor2_check_time, processing_thread,
                           solenoid_deactivation_time, solenoid_activation_time,
                           last_sensor1_state, post_ejection_start_time,
                           post_ejection_delay, total_errors, error_alerts,
                           last_network_check, network_checks,
                           solenoid_state,
                           gpio_released, probe, sensor1, s1HighFor, s1LowFor,
                           lastHighLong, edgesTracked, lastTickTracked,
                           lastEjectorPulse, spawnRefused, in_s1, in_s2, in_ai,
                           faulted, warnings, thresholds, decision,
                           first_call, libVars>>

\* what a statement of process_piece other than the analysis leaves alone
ThreadFrame == AnalysisFrame /\ UNCHANGED results

Goto(t, pc) ==
    /\ tpc' = [tpc EXCEPT ![t] = pc]
    /\ overtaken' = [overtaken EXCEPT ![t] = 0]

\* line 166
T_Begin(t) ==
    /\ tpc[t] = "s166"
    /\ analysis_in_progress' = TRUE
    /\ Goto(t, "s167")
    /\ UNCHANGED <<processing_complete, solenoid_locked, wait_warning_shown,
                   ejection_in_progress, ejection_start_time, ejection_state,
                   ejectorOnFor, ui_state, ui_alert, texc>>
    /\ ThreadFrame

\* line 167
T_NotComplete(t) ==
    /\ tpc[t] = "s167"
    /\ processing_complete' = FALSE
    /\ Goto(t, "s168")
    /\ UNCHANGED <<analysis_in_progress, solenoid_locked, wait_warning_shown,
                   ejection_in_progress, ejection_start_time, ejection_state,
                   ejectorOnFor, ui_state, ui_alert, texc>>
    /\ ThreadFrame

\* line 168
T_Lock(t) ==
    /\ tpc[t] = "s168"
    /\ solenoid_locked' = TRUE
    /\ Goto(t, "s169")
    /\ UNCHANGED <<analysis_in_progress, processing_complete, wait_warning_shown,
                   ejection_in_progress, ejection_start_time, ejection_state,
                   ejectorOnFor, ui_state, ui_alert, texc>>
    /\ ThreadFrame

\* lines 169-170
T_ResetWarning(t) ==
    /\ tpc[t] = "s169"
    /\ wait_warning_shown' = FALSE
    /\ Goto(t, "get_image")
    /\ UNCHANGED <<analysis_in_progress, processing_complete, solenoid_locked,
                   ejection_in_progress, ejection_start_time, ejection_state,
                   ejectorOnFor, ui_state, ui_alert, texc>>
    /\ ThreadFrame

ThreadLocalOnly == UNCHANGED <<analysis_in_progress, processing_complete,
                               solenoid_locked, wait_warning_shown,
                               ejection_in_progress, ejection_start_time,
                               ejection_state, ejectorOnFor,
                               ui_state, ui_alert>>

\* lines 173-179: get_image returns the image, or nothing and the code
\* raises; the except clause (lines 217-223) writes nothing a tick reads and
\* is part of the step that raises
T_GetImage(t) ==
    /\ tpc[t] = "get_image"
    /\ \E got \in BOOLEAN :
          IF got
          THEN Goto(t, "analyze") /\ UNCHANGED texc
          ELSE Goto(t, "s226") /\ texc' = [texc EXCEPT ![t] = "capture"]
    /\ ThreadLocalOnly
    /\ ThreadFrame

\* a policy that fails safe when the service detected nothing
DecideEmptyEjects(res) ==
    IF res.predictions = <<>> \/ HasImperfections(res, EJECTION_THRESHOLDS)
    THEN "s204" ELSE "s211"

\* the decision of lines 187-198 on what analyze_image returned
Decide(res) == IF HasImperfections(res, EJECTION_THRESHOLDS) THEN "s204" ELSE "s211"

\* lines 182-203/210: analyze_image returns processed results, or nothing
T_Analyze(t) ==
    /\ tpc[t] = "analyze"
    /\ \/ \E raw \in RawResponses :
             /\ Goto(t, Decide(ProcessPredictions(raw)))
             /\ results' = IF probe = "policy" THEN ProcessPredictions(raw)
                           ELSE results
             /\ UNCHANGED texc
       \/ /\ Goto(t, "s226")
          /\ texc' = [texc EXCEPT ![t] = "analysis"]
          /\ UNCHANGED results
    /\ ThreadLocalOnly
    /\ AnalysisFrame

\* a call into the UI, the processor or the GPIO library raises inside the try
RaisePoints == {"get_image", "analyze", "s206", "s211"}

T_Raise(t) ==
    /\ tpc[t] \in RaisePoints
    /\ Goto(t, "s226")
    /\ texc' = [texc EXCEPT ![t] = "other"]
    /\ ThreadLocalOnly
    /\ ThreadFrame

\* line 204
T_SetEjecting(t) ==
    /\ tpc[t] = "s204"
    /\ ejection_in_progress' = TRUE
    /\ Goto(t, "s205")
    /\ UNCHANGED <<analysis_in_progress, processing_complete, solenoid_locked,
                   wait_warning_shown, ejection_start_time, ejection_state,
                   ejectorOnFor, ui_state, ui_alert, texc>>
    /\ ThreadFrame

\* line 205
T_StampEjection(t) ==
    /\ tpc[t] = "s205"
    /\ ejection_start_time' = 0
    /\ Goto(t, "s206")
    /\ UNCHANGED <<analysis_in_progress, processing_complete, solenoid_locked,
                   wait_warning_shown, ejection_in_progress, ejection_state,
                   ejectorOnFor, ui_state, ui_alert, texc>>
    /\ ThreadFrame

\* a GPIO library that still drives the pin after GPIO.cleanup
T_AssertEjectorReleased(t) ==
    /\ tpc[t] = "s206"
    /\ ejection_state' = TRUE
    /\ ejectorOnFor' = IF probe # "ejector" \/ ejection_state THEN ejectorOnFor ELSE 0
    /\ Goto(t, "s226")
    /\ UNCHANGED <<analysis_in_progress, processing_complete, solenoid_locked,
                   wait_warning_shown, ejection_in_progress, ejection_start_time,
                   ui_state, ui_alert, texc>>
    /\ ThreadFrame

\* line 206; GPIO.output raises once GPIO.cleanup has released the pins
T_AssertEjector(t) ==
    /\ tpc[t] = "s206"
    /\ ~gpio_released
    /\ ejection_state' = TRUE
    /\ ejectorOnFor' = IF probe # "ejector" \/ ejection_state THEN ejectorOnFor ELSE 0
    /\ Goto(t, "s226")
    /\ UNCHANGED <<analysis_in_progress, processing_complete, solenoid_locked,
                   wait_warning_shown, ejection_in_progress, ejection_start_time,
                   ui_state, ui_alert, texc>>
    /\ ThreadFrame

\* line 211
T_PassComplete(t) ==
    /\ tpc[t] = "s211"
    /\ processing_complete' = TRUE
    /\ Goto(t, "s212")
    /\ UNCHANGED <<analysis_in_progress, solenoid_locked, wait_warning_shown,
                   ejection_in_progress, ejection_start_time, ejection_state,
                   ejectorOnFor, ui_state, ui_alert, texc>>
    /\ ThreadFrame

\* line 212
T_PassUnlock(t) ==
    /\ tpc[t] = "s212"
    /\ solenoid_locked' = FALSE
    /\ Goto(t, "s226")
    /\ UNCHANGED <<analysis_in_progress, processing_complete, wait_warning_shown,
                   ejection_in_progress, ejection_start_time, ejection_state,
                   ejectorOnFor, ui_state, ui_alert, texc>>
    /\ ThreadFrame

\* a finally clause that leaves the unlocking to the ejection cycle
FinallyNeverUnlocks == FALSE

\* the test of line 227
FinallyUnlocks == ~ejection_in_progress

\* lines 226-227
T_Finally(t) ==
    /\ tpc[t] = "s226"
    /\ analysis_in_progress' = FALSE
    /\ Goto(t, IF FinallyUnlocks THEN "s228" ELSE "s230")
    /\ UNCHANGED <<processing_complete, solenoid_locked, wait_warning_shown,
                   ejection_in_progress, ejection_start_time, ejection_state,
                   ejectorOnFor, ui_state, ui_alert, texc>>
    /\ ThreadFrame

\* line 228
T_FinallyComplete(t) ==
    /\ tpc[t] = "s228"
    /\ processing_complete' = TRUE
    /\ Goto(t, "s229")
    /\ UNCHANGED <<analysis_in_progress, solenoid_locked, wait_warning_shown,
                   ejection_in_progress, ejection_start_time, ejection_state,
                   ejectorOnFor, ui_state, ui_alert, texc>>
    /\ ThreadFrame

\* line 229
T_FinallyUnlock(t) ==
    /\ tpc[t] = "s229"
    /\ solenoid_locked' = FALSE
    /\ Goto(t, "s230")
    /\ UNCHANGED <<analysis_in_progress, processing_complete, wait_warning_shown,
                   ejection_in_progress, ejection_start_time, ejection_state,
                   ejectorOnFor, ui_state, ui_alert, texc>>
    /\ ThreadFrame

\* line 230
T_ResetState(t) ==
    /\ tpc[t] = "s230"
    /\ ui_state' = "normal"
    /\ Goto(t, "s231")
    /\ UNCHANGED <<analysis_in_progress, processing_complete, solenoid_locked,
                   wait_warning_shown, ejection_in_progress, ejection_start_time,
                   ejection_state, ejectorOnFor, ui_alert, texc>>
    /\ ThreadFrame

\* line 231, after which the thread is no longer alive
T_ClearAlert(t) ==
    /\ tpc[t] = "s231"
    /\ ui_alert' = "None"
    /\ Goto(t, "none")
    /\ texc' = [texc EXCEPT ![t] = "None"]
    /\ UNCHANGED <<analysis_in_progress, processing_complete, solenoid_locked,
                   wait_warning_shown, ejection_in_progress, ejection_start_time,
                   ejection_state, ejectorOnFor, ui_state>>
    /\ ThreadFrame

\* one statement of a thread; the run is followed up to its MaxChecks-th
\* check_all
ThreadStep(t) ==
    /\ network_checks < MaxChecks
    /\ \/ T_Begin(t)
       \/ T_NotComplete(t)
       \/ T_Lock(t)
       \/ T_ResetWarning(t)
       \/ T_GetImage(t)
       \/ T_Analyze(t)
       \/ T_Raise(t)
       \/ T_SetEjecting(t)
       \/ T_StampEjection(t)
       \/ T_AssertEjector(t)
       \/ T_PassComplete(t)
       \/ T_PassUnlock(t)
       \/ T_Finally(t)
       \/ T_FinallyComplete(t)
       \/ T_FinallyUnlock(t)
       \/ T_ResetState(t)
       \/ T_ClearAlert(t)

\* ------------------------------------------ run_state_machine (one tick)

\* the controller fields one tick can write, before the tick
Cur ==
    [pip |-> piece_in_progress, wait |-> waiting_for_sensor2,
     s2t |-> sensor2_check_time, complete |-> processing_complete,
     locked |-> solenoid_locked, state |-> ui_state, alert |-> ui_alert,
     act |-> solenoid_activation_time, deact |-> solenoid_deactivation_time,
     last_s1 |-> last_sensor1_state, ej_start |-> ejection_start_time,
     post_start |-> post_ejection_start_time, ej_in |-> ejection_in_progress,
     post |-> post_ejection_delay, wws |-> wait_warning_shown,
     errors |-> total_errors, alerts |-> error_alerts,
     solenoid |-> solenoid_state,
     ejector |-> ejection_state, spawn |-> FALSE]

\* a solenoid that follows sensor1 without the start delay
CalculateSolenoidStateUndelayed(locked, sensor1_state, act, deact) ==
    IF locked THEN FALSE
    ELSE IF sensor1_state THEN TRUE
    ELSE IF deact # NoTime THEN deact < SOLENOID_DELAY_MS
    ELSE FALSE

\* _calculate_solenoid_state, on the stamps as they are after the edge updates
CalculateSolenoidState(locked, sensor1_state, act, deact) ==
    IF locked THEN FALSE
    ELSE IF sensor1_state
    THEN (IF act # NoTime THEN act >= SOLENOID_START_DELAY_MS ELSE FALSE)
    ELSE IF deact # NoTime THEN deact < SOLENOID_DELAY_MS
    ELSE FALSE

\* a controller that gives the piece up without saying so
NoPieceFellUnnoticed(c) == [c EXCEPT !.pip = FALSE, !.wait = FALSE]

\* lines 418-422 and 429-430: sensor2 did not see the piece
NoPieceFell(c) ==
    [c EXCEPT !.alert = "No piece fell in slot!", !.state = "error_recovery",
              !.complete = TRUE, !.locked = FALSE, !.pip = FALSE, !.wait = FALSE]

\* _handle_piece_processing, state 'normal'
HandleNormal(c, s1, s2, ai) ==
    LET detect == s1 /\ ~c.pip /\ ~c.locked
        c1 == IF detect
              THEN [c EXCEPT !.pip = TRUE, !.wait = FALSE, !.alert = "None"]
              ELSE c
    IN IF c1.pip /\ ~c1.locked /\ ~s1
       THEN IF ai
            THEN [c1 EXCEPT !.pip = FALSE, !.complete = TRUE]
            ELSE LET c2 == IF ~c1.wait
                           THEN [c1 EXCEPT !.wait = TRUE, !.s2t = 0]
                           ELSE c1
                 IN IF c2.wait /\ c2.s2t > SENSOR2_WAIT_TIME_MS
                    THEN IF ~s2
                         THEN NoPieceFell(c2)
                         ELSE [c2 EXCEPT !.spawn = TRUE,
                                         !.pip = FALSE, !.wait = FALSE]
                    ELSE c2
       ELSE c1

\* an error recovery that does not look at the AI switch
HandleErrorRecoveryAlwaysAI(c, s1, s2, ai) ==
    IF s1 /\ ~c.locked
    THEN [c EXCEPT !.state = "normal", !.pip = TRUE, !.wait = FALSE,
                   !.alert = "None"]
    ELSE IF s2 /\ ~c.locked
    THEN [c EXCEPT !.spawn = TRUE, !.state = "normal", !.pip = FALSE,
                   !.wait = FALSE]
    ELSE c

\* an error recovery that sensor2 does not end when the AI switch is on
HandleErrorRecoveryStaying(c, s1, s2, ai) ==
    IF s1 /\ ~c.locked
    THEN [c EXCEPT !.state = "normal", !.pip = TRUE, !.wait = FALSE,
                   !.alert = "None"]
    ELSE IF s2 /\ ~c.locked /\ ~ai
    THEN [c EXCEPT !.spawn = TRUE, !.state = "normal", !.pip = FALSE,
                   !.wait = FALSE]
    ELSE c

\* _handle_piece_processing, state 'error_recovery'
HandleErrorRecovery(c, s1, s2, ai) ==
    IF s1 /\ ~c.locked
    THEN [c EXCEPT !.state = "normal", !.pip = TRUE, !.wait = FALSE,
                   !.alert = "None"]
    ELSE IF s2 /\ ~c.locked
    THEN [c EXCEPT !.spawn = ~ai, !.state = "normal", !.pip = FALSE,
                   !.wait = FALSE]
    ELSE c

HandlePieceProcessing(c, s1, s2, ai) ==
    IF c.state = "normal" THEN HandleNormal(c, s1, s2, ai)
    ELSE HandleErrorRecovery(c, s1, s2, ai)

\* what the run observes of sensor1 at a tick that takes the given branch:
\* the sample; whether the tick reached the edge tracking of lines 355-362;
\* whether every tick since the sample before the last rising edge did; and,
\* for as long as that is so, for how long sensor1 has been high or low and
\* whether the last high interval lasted SOLENOID_START_DELAY_MS; a run that
\* follows sensor1 itself observes the same of every tick, whatever its branch
ObserveSensor1(s1, branch) ==
    IF probe \in {"sensor1", "sensor1_all"}
    THEN LET tracked == branch = "unlocked" \/ probe = "sensor1_all"
             et == IF s1 /\ ~sensor1 THEN tracked /\ lastTickTracked
                   ELSE edgesTracked /\ tracked
         IN /\ sensor1' = s1
            /\ lastTickTracked' = tracked
            /\ edgesTracked' = et
            /\ s1HighFor' = IF et /\ s1 /\ sensor1
                            THEN Min(s1HighFor + UI_REFRESH_RATE_MS,
                                     SOLENOID_START_DELAY_MS)
                            ELSE 0
            /\ s1LowFor' = IF et /\ ~s1 /\ ~sensor1
                           THEN Min(s1LowFor + UI_REFRESH_RATE_MS, SOLENOID_DELAY_MS)
                           ELSE 0
            /\ lastHighLong' = IF ~et THEN FALSE
                               ELSE IF ~s1 /\ sensor1
                               THEN s1HighFor + UI_REFRESH_RATE_MS
                                        >= SOLENOID_START_DELAY_MS
                               ELSE lastHighLong
    ELSE UNCHANGED <<sensor1, s1HighFor, s1LowFor, lastHighLong, edgesTracked,
                     lastTickTracked>>

\* what the run observes of the ejector output: for how long it has been
\* asserted, and the length of the pulse that this tick ended
ObserveEjector(ejector) ==
    IF probe = "ejector"
    THEN /\ ejectorOnFor' = IF ~ejector THEN NoTime
                            ELSE Elapse(ejectorOnFor, EJECTION_TIME_MS + 2 * UI_REFRESH_RATE_MS)
         /\ lastEjectorPulse' = IF ejection_state /\ ~ejector THEN ejectorOnFor
                                ELSE NoTime
    ELSE UNCHANGED <<ejectorOnFor, lastEjectorPulse>>

\* what the run observes of the inputs a tick sampled: sensor1 here, sensor2
\* and the AI switch where _handle_piece_processing is called; a run that
\* follows the network observes them at the ticks that call check_all
ObserveInputs(s1, branch) ==
    IF probe = "inputs"
    THEN in_s1' = (s1 /\ branch \in {"locked", "unlocked"})
    ELSE IF probe = "network"
    THEN in_s1' = (s1 /\ check_parity' # check_parity)
    ELSE UNCHANGED in_s1

ObserveHandlerInputs(s2, ai, called) ==
    IF probe = "inputs"
    THEN in_s2' = (s2 /\ called) /\ in_ai' = (ai /\ called)
    ELSE IF probe = "network"
    THEN /\ in_s2' = (s2 /\ called /\ check_parity' # check_parity)
         /\ in_ai' = (ai /\ called /\ check_parity' # check_parity)
    ELSE UNCHANGED <<in_s2, in_ai>>

\* NetworkManager: the endpoints, a check, the history
Endpoints == {"internet", "camera", "ai_server"}

\* a check whose success leaves error_count as it was
CheckedKeepingCount(st, e, ok) ==
    [st EXCEPT ![e] =
        IF ok THEN [status |-> "Connected", error_count |-> @.error_count]
        ELSE [status |-> "Disconnected",
              error_count |-> Min(@.error_count + 1, MaxFailures)]]

\* the status of endpoint e after a check that succeeded or failed
\* (lines 95-97 and 102-103, lines 135-145; IMAGE_URL and INFERENCE_URL
\* have a host, so the 'Invalid URL' branch is not taken)
Checked(st, e, ok) ==
    [st EXCEPT ![e] =
        IF ok THEN [status |-> "Connected", error_count |-> 0]
        ELSE [status |-> "Disconnected",
              error_count |-> Min(@.error_count + 1, MaxFailures)]]

\* a history that drops the newest snapshot when it is full
TrimmedNewest(h) == IF Len(h) > MaxHistory THEN SubSeq(h, 1, MaxHistory) ELSE h

\* the while loop of lines 160-161
RECURSIVE Trimmed(_)
Trimmed(h) == IF Len(h) > MaxHistory THEN Trimmed(Tail(h)) ELSE h

\* _update_history
UpdateHistory(h, st, e) ==
    Trimmed(Append(h, [endpoint |-> e, status |-> st[e]]))

\* the network checks of a tick that takes the given branch
ChecksNetworkAlways(branch) == TRUE

\* lines 316-333 return before the check of line 336
ChecksNetwork(branch) == branch \in {"locked", "unlocked"}

\* check_all: the three checks, the history entry of check_internet
CheckAll(i, c, a) ==
    /\ status' = Checked(Checked(Checked(status, "internet", i), "camera", c),
                         "ai_server", a)
    /\ connection_history' = UpdateHistory(connection_history, status', "internet")
    /\ last_checked' = "ai_server"
    /\ check_parity' = 1 - check_parity
    /\ last_ok' = [e \in Endpoints |->
                     IF (e = "internet" /\ i) \/ (e = "camera" /\ c)
                           \/ (e = "ai_server" /\ a)
                     THEN "ok" ELSE "fail"]
    /\ fail_run' = [e \in Endpoints |->
                      IF last_ok'[e] = "ok" THEN 0
                      ELSE Min(fail_run[e] + 1, MaxFailures)]

\* the outcomes of one check_all that are followed: everything reachable,
\* the internet alone, nothing
NetOutcomes == {<<TRUE, TRUE, TRUE>>, <<TRUE, FALSE, FALSE>>,
                <<FALSE, FALSE, FALSE>>}

\* a loop that drops the check that falls due in a tick of the ejection cycle
NetworkCheckSkipping(branch) ==
    IF probe = "network" /\ ChecksNetwork(branch) /\ last_network_check = "old"
    THEN /\ \E o \in NetOutcomes : CheckAll(o[1], o[2], o[3])
         /\ last_network_check' = "recent"
         /\ network_checks' = network_checks + 1
    ELSE /\ last_network_check' \in
               IF probe = "network" /\ last_network_check = "recent"
               THEN {"recent", "old"}
               ELSE {"recent"}
         /\ UNCHANGED <<network_checks, netVars>>

\* lines 336-338; a specification that does not follow the network never
\* finds the interval elapsed
NetworkCheck(branch) ==
    IF probe = "network" /\ ChecksNetwork(branch) /\ last_network_check = "old"
    THEN /\ \E o \in NetOutcomes : CheckAll(o[1], o[2], o[3])
         /\ last_network_check' = "recent"
         /\ network_checks' = network_checks + 1
    ELSE /\ last_network_check' \in
               IF probe = "network" /\ last_network_check = "recent"
               THEN {"recent", "old"}
               ELSE {last_network_check}
         /\ UNCHANGED <<network_checks, netVars>>

\* a controller that stops working on the piece when a check has failed
HaltOnFailedCheck(c, st) ==
    IF \E e \in DOMAIN st : st[e].status = "Disconnected"
    THEN [c EXCEPT !.pip = FALSE, !.wait = FALSE, !.solenoid = FALSE,
                   !.spawn = FALSE]
    ELSE c

\* line 337: the status that check_all returns is not used
CheckAllDiscarded(c, st) == c

\* the end of one loop iteration: the fields written by the tick, then the
\* sleep, which ages every stamp
CommitFields(n, s1, branch) ==
    /\ piece_in_progress' = n.pip
    /\ waiting_for_sensor2' = n.wait
    /\ processing_complete' = n.complete
    /\ solenoid_locked' = n.locked
    /\ ui_state' = n.state
    /\ ui_alert' = n.alert
    /\ last_sensor1_state' = n.last_s1
    /\ ejection_in_progress' = n.ej_in
    /\ post_ejection_delay' = n.post
    /\ wait_warning_shown' = n.wws
    /\ total_errors' = n.errors
    /\ error_alerts' = n.alerts
    /\ solenoid_state' = n.solenoid
    /\ ejection_state' = n.ejector
    \* sensor2_check_time is stamped whenever waiting_for_sensor2 is set
    /\ sensor2_check_time' = Age(n.s2t, SENSOR2_WAIT_TIME_MS + UI_REFRESH_RATE_MS, n.wait)
    \* the next high sample stamps the activation time unless the last
    \* tracked sample was high, and the other way round
    /\ solenoid_activation_time' = Age(n.act, SOLENOID_START_DELAY_MS, n.last_s1)
    /\ solenoid_deactivation_time' = Age(n.deact, SOLENOID_DELAY_MS, ~n.last_s1)
    /\ ejection_start_time' = Elapse(n.ej_start, EJECTION_TIME_MS)
    \* post_ejection_start_time is stamped whenever post_ejection_delay is set
    /\ post_ejection_start_time' = Age(n.post_start, POST_EJECTION_DELAY_MS, n.post)
    /\ IF n.spawn /\ CanSpawn /\ FreeThreads # {}
       THEN /\ tpc' = [tpc EXCEPT ![NewThread] = "s166"]
            /\ processing_thread' = NewThread
       ELSE UNCHANGED <<tpc, processing_thread>>
    /\ overtaken' = [t \in Threads |-> IF Runnable(t) THEN overtaken[t] + 1 ELSE 0]
    /\ spawnRefused' = (n.spawn /\ ~CanSpawn)
    /\ ObserveEjector(n.ejector)
    /\ ObserveSensor1(s1, branch)
    /\ ObserveInputs(s1, branch)
    /\ faulted' = (probe = "faults" /\ branch \in {"error", "fault"})
    \* the "please wait" messages of lines 345-348 since solenoid_locked
    \* was last found clear
    /\ warnings' = IF probe # "warning" \/ ~n.locked THEN 0
                   ELSE IF n.wws /\ ~wait_warning_shown THEN Min(warnings + 1, 2)
                   ELSE warnings
    /\ UNCHANGED <<lpc, running, analysis_in_progress,
                   gpio_released, texc, probe, policyVars, cacheVars,
                   asyncVars>>

\* one loop iteration: the network check of lines 336-338 where the branch
\* reaches it, the fields, the sleep
Commit(n, s1, branch) ==
    /\ NetworkCheck(branch)
    /\ CommitFields(CheckAllDiscarded(n, status'), s1, branch)

\* an ejection branch that starts the delay and leaves its own flag set
TickEjectingKeepingFlag(s1) ==
    /\ lpc = "run"
    /\ ejection_in_progress
    /\ ejection_start_time # NoTime
    /\ Commit(IF ejection_start_time >= EJECTION_TIME_MS
              THEN [Cur EXCEPT !.ejector = FALSE, !.post = TRUE, !.post_start = 0]
              ELSE Cur,
              s1, "ejecting")
    /\ ObserveHandlerInputs(FALSE, FALSE, FALSE)

\* lines 316-323
TickEjecting(s1) ==
    /\ lpc = "run"
    /\ ejection_in_progress
    /\ ejection_start_time # NoTime
    /\ Commit(IF ejection_start_time >= EJECTION_TIME_MS
              THEN [Cur EXCEPT !.ejector = FALSE, !.ej_in = FALSE,
                               !.post = TRUE, !.post_start = 0]
              ELSE Cur,
              s1, "ejecting")
    /\ ObserveHandlerInputs(FALSE, FALSE, FALSE)

\* an except clause that swallows the exception
SwallowError(c) == c

\* lines 374-375: one more error counted, one more alert message
CountError(c) ==
    [c EXCEPT !.errors = Min(c.errors + 1, MaxErrors),
              !.alerts = Min(c.alerts + 1, MaxErrors)]

\* line 317 with ejection_start_time still None: the subtraction raises
\* TypeError, caught by lines 373-375
TickError(s1) ==
    /\ lpc = "run"
    /\ ejection_in_progress
    /\ ejection_start_time = NoTime
    /\ Commit(CountError(Cur), s1, "error")
    /\ ObserveHandlerInputs(FALSE, FALSE, FALSE)

\* lines 326-333
TickPostDelay(s1) ==
    /\ lpc = "run"
    /\ ~ejection_in_progress
    /\ post_ejection_delay
    /\ Commit(IF post_ejection_start_time >= POST_EJECTION_DELAY_MS
              THEN [Cur EXCEPT !.post = FALSE, !.complete = TRUE, !.locked = FALSE]
              ELSE Cur,
              s1, "post")
    /\ ObserveHandlerInputs(FALSE, FALSE, FALSE)

\* lines 341-350
TickLocked(s1) ==
    /\ lpc = "run"
    /\ ~ejection_in_progress
    /\ ~post_ejection_delay
    /\ solenoid_locked
    /\ Commit([Cur EXCEPT !.solenoid = FALSE,
                          !.wws = IF s1 THEN TRUE ELSE wait_warning_shown],
              s1, "locked")
    /\ ObserveHandlerInputs(FALSE, FALSE, FALSE)

\* lines 353-371: the fields after the edge tracking, the solenoid output
\* and _handle_piece_processing
UnlockedRecord(s1, s2, ai) ==
    LET deact == IF last_sensor1_state /\ ~s1 THEN 0 ELSE solenoid_deactivation_time
        act == IF ~last_sensor1_state /\ s1 THEN 0 ELSE solenoid_activation_time
        c == [Cur EXCEPT !.deact = deact, !.act = act, !.last_s1 = s1,
                         !.solenoid = CalculateSolenoidState(solenoid_locked,
                                                             s1, act, deact)]
    IN  IF processing_complete THEN HandlePieceProcessing(c, s1, s2, ai) ELSE c

\* lines 353-371
TickUnlocked(s1, s2, ai) ==
    /\ lpc = "run"
    /\ ~ejection_in_progress
    /\ ~post_ejection_delay
    /\ ~solenoid_locked
    /\ Commit(UnlockedRecord(s1, s2, ai), s1, "unlocked")
    /\ ObserveHandlerInputs(s2, ai, processing_complete)

\* one loop iteration; the run is followed up to its MaxChecks-th check_all
Tick ==
    /\ LoopMayRun
    /\ network_checks < MaxChecks
    /\ \E s1 \in BOOLEAN :
          \/ TickEjecting(s1)
          \/ TickError(s1)
          \/ TickPostDelay(s1)
          \/ TickLocked(s1)
          \/ \E s2, ai \in BOOLEAN : TickUnlocked(s1, s2, ai)

\* the first call of the tick into the GPIO library or the network manager
\* raises (set_ejection_cylinder at line 319, check_all at line 337,
\* set_solenoid at line 342, read_sensor1 at line 353): nothing is written
\* before it, and lines 373-375 catch it
TickFault ==
    /\ lpc = "run"
    /\ LoopMayRun
    /\ \/ /\ ejection_in_progress
          /\ ejection_start_time # NoTime
          /\ ejection_start_time >= EJECTION_TIME_MS
       \/ /\ ~ejection_in_progress
          /\ ~post_ejection_delay
    /\ Commit(CountError(Cur), FALSE, "fault")
    /\ ObserveHandlerInputs(FALSE, FALSE, FALSE)

\* ---------------------------------------------------------- run / cleanup

MainFrame == UNCHANGED <<piece_in_progress, waiting_for_sensor2,
                         sensor2_check_time, processing_thread,
                         analysis_in_progress, processing_complete,
                         solenoid_deactivation_time, solenoid_activation_time,
                         last_sensor1_state, ejection_start_time,
                         post_ejection_start_time, ejection_in_progress,
                         post_ejection_delay, solenoid_locked,
                         wait_warning_shown, total_errors, error_alerts,
                         last_network_check, network_checks, ui_state,
                         ui_alert, ejection_state, tpc, texc, overtaken, obsVars,
                         policyVars, libVars>>

\* a cleanup that releases the GPIO without waiting for the thread
LeaveLoopSkippingJoin ==
    /\ lpc = "run"
    /\ running' = FALSE
    /\ lpc' = "gpio_cleanup"
    /\ UNCHANGED <<solenoid_state, gpio_released>>
    /\ MainFrame

\* lines 458-463: KeyboardInterrupt, or an exception of update_display,
\* leaves the loop; line 467
LeaveLoop ==
    /\ lpc = "run"
    /\ running' = FALSE
    /\ lpc' = "join"
    /\ UNCHANGED <<solenoid_state, gpio_released>>
    /\ MainFrame

\* lines 469-470: join returns when the thread has ended or after the timeout
Join ==
    /\ lpc = "join"
    /\ lpc' = "gpio_cleanup"
    /\ UNCHANGED <<running, solenoid_state, gpio_released>>
    /\ MainFrame

\* GPIOController.cleanup
GpioCleanup ==
    /\ lpc = "gpio_cleanup"
    /\ solenoid_state' = FALSE
    /\ gpio_released' = TRUE
    /\ lpc' = "done"
    /\ UNCHANGED running
    /\ MainFrame

\* the running system: loop iterations and the steps of the threads
Next ==
    \/ Tick
    \/ \E t \in Threads : ThreadStep(t)

Spec == Init /\ [][Next]_vars

\* the same system observed at sensor1 and the solenoid
InitSolenoid == CtrlInit /\ ObsInit("sensor1") /\ PolicyIdle /\ LibIdle

SpecSolenoid == InitSolenoid /\ [][Next]_vars

\* the running system under a fair scheduler: the loop keeps iterating
\* (run, lines 452-457) and a started thread keeps executing, its requests to
\* the camera and the inference service returning or timing out
InitLive == CtrlInit /\ ObsInit("none") /\ PolicyIdle /\ LibIdle

SpecLive ==
    /\ InitLive
    /\ [][Next]_vars
    /\ WF_vars(Tick)
    /\ WF_vars(\E t \in Threads : ThreadStep(t))

\* the same system with the results of the last analysis on record
InitPass == CtrlInit /\ ObsInit("policy") /\ PolicyIdle /\ LibIdle

SpecPass == InitPass /\ [][Next]_vars

\* the same system observed at the inputs of each tick
InitInputs == CtrlInit /\ ObsInit("inputs") /\ PolicyIdle /\ LibIdle

SpecInputs == InitInputs /\ [][Next]_vars

\* the running system with ticks that raise
InitFaults == CtrlInit /\ ObsInit("faults") /\ PolicyIdle /\ LibIdle

NextFaults ==
    \/ Next
    \/ TickFault

SpecFaults == InitFaults /\ [][NextFaults]_vars

\* the same system observed at sensor1 on every tick
InitSensor1 == CtrlInit /\ ObsInit("sensor1_all") /\ PolicyIdle /\ LibIdle

SpecSensor1 == InitSensor1 /\ [][Next]_vars

\* the same system observed at the "please wait" messages
InitWarning == CtrlInit /\ ObsInit("warning") /\ PolicyIdle /\ LibIdle

SpecWarning == InitWarning /\ [][Next]_vars

\* the same system with the network checks of the loop
InitTickNet == CtrlInit /\ ObsInit("network") /\ PolicyIdle /\ LibIdle

SpecTickNet == InitTickNet /\ [][Next]_vars

\* the running system and its shutdown
InitShutdown == CtrlInit /\ ObsInit("none") /\ PolicyIdle /\ LibIdle

NextShutdown ==
    \/ Next
    \/ LeaveLoop
    \/ Join
    \/ GpioCleanup

SpecShutdown == InitShutdown /\ [][NextShutdown]_vars

\* ------------------------------------- _has_imperfections on its own

\* the arguments of one call: a threshold configuration, and results made
\* of up to MaxPreds predictions with their summary, or no results at all;
\* confidence and area are ranks around the thresholds
ThresholdConfigs ==
    [confidence_min : {1, 2}, area_max : {1, 2}, critical_count : {0, 1},
     major_count : {0, 1}, total_defects : {1, 2}]

PolicyPrediction ==
    [confidence : {1, 2}, area : {1, 2}, severity : {"critical", "major", "minor"}]

PolicyInputs ==
    {NoResults} \cup
    {Summarized(preds) : preds \in UNION {[1..n -> PolicyPrediction] : n \in 0..MaxPreds}}

InitPolicy ==
    /\ CtrlInit
    /\ ObsInit("none")
    /\ LibIdle
    /\ thresholds \in ThresholdConfigs
    /\ results \in PolicyInputs
    /\ decision = "unset"
    /\ first_call = [results |-> NoResults, decision |-> "unset", other |-> FALSE]

\* should_eject = self._has_imperfections(results)
Evaluate ==
    /\ decision = "unset"
    /\ decision' = IF HasImperfections(results, thresholds) THEN "eject" ELSE "pass"
    /\ UNCHANGED <<ctrlVars, obsVars, thresholds, results, first_call, libVars>>

SpecPolicy == InitPolicy /\ [][Evaluate]_vars

\* a policy with hysteresis: once it has ejected it goes on ejecting
EvaluateAgainLatching ==
    \E res \in {r \in PolicyInputs : Len(r.predictions) < MaxPreds} :
        /\ results' = res
        /\ decision' = IF decision = "eject" \/ HasImperfections(res, thresholds)
                       THEN "eject" ELSE "pass"
        /\ first_call' =
              IF first_call.decision = "unset"
              THEN [results |-> res, decision |-> decision', other |-> FALSE]
              ELSE [first_call EXCEPT
                      !.other = @ \/ decision' # first_call.decision]
        /\ UNCHANGED <<ctrlVars, obsVars, thresholds, libVars>>

\* one more call of _has_imperfections in a series of calls, on any results;
\* first_call keeps the arguments and the outcome of the first call of the
\* series, and whether a later call has decided otherwise
EvaluateAgain ==
    \E res \in {r \in PolicyInputs : Len(r.predictions) < MaxPreds} :
        /\ results' = res
        /\ decision' = IF HasImperfections(res, thresholds) THEN "eject" ELSE "pass"
        /\ first_call' =
              IF first_call.decision = "unset"
              THEN [results |-> res, decision |-> decision', other |-> FALSE]
              ELSE [first_call EXCEPT
                      !.other = @ \/ decision' # first_call.decision]
        /\ UNCHANGED <<ctrlVars, obsVars, thresholds, libVars>>

SpecCalls == InitPolicy /\ [][EvaluateAgain]_vars

\* ------------------------------------------------ ImageCache on its own

Keys == {"a", "b", "c"}

Byte == {0, 1}

\* the byte strings put into the cache, up to one byte more than max_size
Blobs == {[i \in 1..n |-> b] : n \in 0..(MaxSize + 1), b \in Byte}

Miss == [hit |-> FALSE, data |-> <<>>]

Cached == [cache |-> cache, current_size |-> current_size]

HasKey(c, k) == \E i \in 1..Len(c) : c[i].key = k

Lookup(c, k) == c[CHOOSE i \in 1..Len(c) : c[i].key = k]

\* an entry removal that forgets the size
RemoveEntryKeepingSize(st, k) ==
    [st EXCEPT !.cache = SelectSeq(st.cache, LAMBDA e : e.key # k)]

\* _remove_entry
RemoveEntry(st, k) ==
    IF HasKey(st.cache, k)
    THEN [cache |-> SelectSeq(st.cache, LAMBDA e : e.key # k),
          current_size |-> st.current_size - Lookup(st.cache, k).size]
    ELSE st

\* (current_time - timestamp).total_seconds() > self.max_age
Expired(age) == age > MaxAge

RECURSIVE RemoveAll(_, _)
RemoveAll(st, ks) ==
    IF ks = <<>> THEN st ELSE RemoveAll(RemoveEntry(st, Head(ks)), Tail(ks))

\* _clean_expired
CleanExpired(st) ==
    LET expired == SelectSeq(st.cache, LAMBDA e : Expired(e.age))
    IN  RemoveAll(st, [i \in 1..Len(expired) |-> expired[i].key])

\* sorted(..., key=timestamp) is stable: among equal timestamps the dict
\* order stays; the oldest timestamp is the largest age
RECURSIVE InsertByTimestamp(_, _)
InsertByTimestamp(sorted, e) ==
    IF sorted = <<>> THEN <<e>>
    ELSE IF Head(sorted).age >= e.age
         THEN <<Head(sorted)>> \o InsertByTimestamp(Tail(sorted), e)
         ELSE <<e>> \o sorted

RECURSIVE SortedByTimestamp(_)
SortedByTimestamp(c) ==
    IF c = <<>> THEN <<>>
    ELSE InsertByTimestamp(SortedByTimestamp(SubSeq(c, 1, Len(c) - 1)), c[Len(c)])

RECURSIVE MakeSpaceFrom(_, _, _)
MakeSpaceFrom(st, needed_size, entries) ==
    IF st.current_size + needed_size > MaxSize /\ entries # <<>>
    THEN MakeSpaceFrom(RemoveEntry(st, Head(entries).key), needed_size,
                       Tail(entries))
    ELSE st

\* _make_space
MakeSpace(st, needed_size) ==
    MakeSpaceFrom(st, needed_size, SortedByTimestamp(st.cache))

\* a put that never rejects
NeverTooLarge(size) == FALSE

\* line 55
TooLarge(size) == size > MaxSize

Stored(st, k, d) ==
    [cache |-> Append(st.cache, [key |-> k, data |-> d, age |-> 0,
                                 size |-> Len(d)]),
     current_size |-> st.current_size + Len(d)]

\* a put that gives up when the cache is full instead of evicting
PutResultNoEvict(st, k, d) ==
    LET cleaned == CleanExpired(st)
    IN  IF cleaned.current_size + Len(d) > MaxSize
        THEN cleaned
        ELSE Stored(RemoveEntry(cleaned, k), k, d)

\* put
PutResult(st, k, d) ==
    LET cleaned == CleanExpired(st)
        spaced == MakeSpace(cleaned, Len(d))
    IN  IF TooLarge(Len(d))
        THEN cleaned
        ELSE Stored(IF HasKey(spaced.cache, k) THEN RemoveEntry(spaced, k)
                    ELSE spaced, k, d)

\* get
GetResult(st, k) ==
    LET cleaned == CleanExpired(st)
    IN  IF HasKey(cleaned.cache, k)
        THEN IF Lookup(cleaned.cache, k).age <= MaxAge
             THEN [st |-> cleaned,
                   ret |-> [hit |-> TRUE, data |-> Lookup(cleaned.cache, k).data]]
             ELSE [st |-> RemoveEntry(cleaned, k), ret |-> Miss]
        ELSE [st |-> cleaned, ret |-> Miss]

\* the keys of order that are still stored in c
StillStored(order, c) == SelectSeq(order, LAMBDA x : HasKey(c, x))

\* k becomes the most recently used key
Used(order, k) == Append(SelectSeq(order, LAMBDA x : x # k), k)

CacheFrame == UNCHANGED <<ctrlVars, obsVars, policyVars, netVars, asyncVars>>

Put(k, d) ==
    \E r \in {PutResult(Cached, k, d)} :
        /\ cache' = r.cache
        /\ current_size' = r.current_size
        /\ last_op' = [op |-> "put", key |-> k, data |-> d]
        /\ cache_ret' = Miss
        /\ since_put' = IF Len(d) > MaxSize THEN since_put
                        ELSE [since_put EXCEPT ![k] = 0]
        /\ use_order' = IF Len(d) > MaxSize
                        THEN StillStored(use_order, r.cache)
                        ELSE StillStored(Used(use_order, k), r.cache)
        /\ CacheFrame

Get(k) ==
    \E r \in {GetResult(Cached, k)} :
        /\ cache' = r.st.cache
        /\ current_size' = r.st.current_size
        /\ last_op' = [op |-> "get", key |-> k, data |-> <<>>]
        /\ cache_ret' = r.ret
        /\ use_order' = IF r.ret.hit
                        THEN StillStored(Used(use_order, k), r.st.cache)
                        ELSE StillStored(use_order, r.st.cache)
        /\ UNCHANGED since_put
        /\ CacheFrame

\* one second passes between two calls
Advance ==
    /\ cache' = [i \in 1..Len(cache) |->
                    [cache[i] EXCEPT !.age = Min(cache[i].age + 1, MaxAge + 1)]]
    /\ since_put' = [k \in Keys |->
                        IF since_put[k] = NoTime THEN NoTime
                        ELSE Min(since_put[k] + 1, MaxAge + 1)]
    /\ last_op' = [op |-> "advance", key |-> "a", data |-> <<>>]
    /\ cache_ret' = Miss
    /\ UNCHANGED <<current_size, use_order>>
    /\ CacheFrame

InitCache == CtrlInit /\ ObsInit("none") /\ PolicyIdle /\ LibIdle

NextCache ==
    \/ \E k \in Keys, d \in Blobs : Put(k, d)
    \/ \E k \in Keys : Get(k)
    \/ Advance

SpecCache == InitCache /\ [][NextCache]_vars

\* ---------------------- ImageProcessor.get_image of the asyncio variant

\* the minute of the cache key, f"{url}:{now:%Y%m%d%H%M}", for the one url
\* that _process_piece asks for: "a", "b", "c" are three minutes in a row
MinuteOf(k) == CHOOSE i \in 1..3 : <<"a", "b", "c">>[i] = k

\* one call of get_image, made in minute k while the camera shows shot: the
\* cache is asked first; on a miss the download returns the shot, returns
\* something verify_image rejects, or fails. The entries grow older by the
\* minutes gone by since the call before (ages are in minutes here, and
\* max_age is an hour). last_op keeps the minute and the shot, cache_ret
\* what get_image returned and whether it came from the cache.
GetImage(k, shot, outcome) ==
    /\ MinuteOf(k) >= MinuteOf(last_op.key)
    /\ LET gone == MinuteOf(k) - MinuteOf(last_op.key)
           aged == [cache |-> [i \in 1..Len(cache) |->
                                 [cache[i] EXCEPT
                                    !.age = Min(@ + gone, MaxAge + 1)]],
                    current_size |-> current_size]
       IN  \E r \in {GetResult(aged, k)} :
             IF r.ret.hit /\ r.ret.data # <<>>
             THEN /\ cache' = r.st.cache
                  /\ current_size' = r.st.current_size
                  /\ cache_ret' = r.ret
             ELSE IF outcome = "ok"
             THEN \E q \in {PutResult(r.st, k, shot)} :
                    /\ cache' = q.cache
                    /\ current_size' = q.current_size
                    /\ cache_ret' = [hit |-> FALSE, data |-> shot]
             ELSE /\ cache' = r.st.cache
                  /\ current_size' = r.st.current_size
                  /\ cache_ret' = Miss
    /\ last_op' = [op |-> "get_image", key |-> k, data |-> shot]
    /\ UNCHANGED <<since_put, use_order>>
    /\ CacheFrame

\* the pieces of a run: one get_image for each
SpecImages ==
    InitCache /\ [][\E k \in Keys, shot \in Blobs \ {<<>>},
                       outcome \in {"ok", "rejected", "failed"} :
                       GetImage(k, shot, outcome)]_vars

\* -------------------------------------------- NetworkManager on its own

\* what the run observes of a check of e
ObserveCheck(e, ok) ==
    /\ last_checked' = e
    /\ check_parity' = 1 - check_parity
    /\ last_ok' = [last_ok EXCEPT ![e] = IF ok THEN "ok" ELSE "fail"]
    /\ fail_run' = [fail_run EXCEPT ![e] = IF ok THEN 0
                                           ELSE Min(@ + 1, MaxFailures)]

NetFrame == UNCHANGED <<ctrlVars, obsVars, policyVars, cacheVars, asyncVars>>

\* check_internet: the finally clause updates the history
CheckInternet(ok) ==
    /\ status' = Checked(status, "internet", ok)
    /\ connection_history' = UpdateHistory(connection_history, status', "internet")
    /\ ObserveCheck("internet", ok)
    /\ NetFrame

\* _check_endpoint: both branches return before line 147
CheckEndpoint(e, ok) ==
    /\ status' = Checked(status, e, ok)
    /\ ObserveCheck(e, ok)
    /\ UNCHANGED connection_history
    /\ NetFrame

CheckCamera(ok) == CheckEndpoint("camera", ok)

CheckAiServer(ok) == CheckEndpoint("ai_server", ok)

InitNetwork == CtrlInit /\ ObsInit("none") /\ PolicyIdle /\ LibIdle

NextNetwork ==
    \/ \E ok \in BOOLEAN : CheckInternet(ok)
    \/ \E ok \in BOOLEAN : CheckCamera(ok)
    \/ \E ok \in BOOLEAN : CheckAiServer(ok)

SpecNetwork == InitNetwork /\ [][NextNetwork]_vars

\* ------------------------------- the asyncio variant of the controller

AsyncFrame ==
    UNCHANGED <<lpc, running, processing_thread, analysis_in_progress,
                processing_complete, solenoid_deactivation_time,
                solenoid_activation_time, last_sensor1_state,
                ejection_start_time, post_ejection_start_time,
                ejection_in_progress, post_ejection_delay, solenoid_locked,
                wait_warning_shown, total_errors, error_alerts, ui_state,
                ejection_state, gpio_released, tpc, texc, overtaken,
                last_network_check, network_checks, obsVars, policyVars,
                cacheVars, netVars>>

\* InspectionSystem.process_cycle up to its first await of _process_piece,
\* or to the asyncio.sleep(0.05) of the main loop; s1 and s1b are the two
\* readings of sensor1 (lines 40 and 57)
ProcessCycle(s1, s1b, s2) ==
    /\ cycle.at = "sleep"
    /\ IF error_state
       THEN \* _handle_error_recovery
            /\ error_state' = (~s1 /\ error_state)
            /\ piece_in_progress' = (s1 \/ piece_in_progress)
            /\ waiting_for_sensor2' = (~s1 /\ waiting_for_sensor2)
            /\ processing_active' = (~s1 /\ s2)
            /\ cycle' = IF ~s1 /\ s2 THEN [at |-> "get_image", from |-> "recovery"]
                        ELSE cycle
            /\ sensor2_check_time' = IF ~s1 /\ s2 THEN sensor2_check_time
                                     ELSE Elapse(sensor2_check_time,
                                                 SENSOR2_WAIT_TIME_MS + UI_REFRESH_RATE_MS)
            /\ UNCHANGED <<solenoid_state, ui_alert>>
       ELSE LET pip == piece_in_progress \/ s1
                wait == waiting_for_sensor2 /\ (piece_in_progress \/ ~s1)
                s2t == IF wait THEN sensor2_check_time ELSE 0
                due == pip /\ ~s1b /\ s2t > SENSOR2_WAIT_TIME_MS
            IN  /\ solenoid_state' = IF pip THEN s1b ELSE solenoid_state
                /\ error_state' = (due /\ ~s2)
                /\ ui_alert' = IF due /\ ~s2 THEN "No piece fell in slot!"
                               ELSE ui_alert
                /\ processing_active' = (due /\ s2)
                /\ cycle' = IF due /\ s2 THEN [at |-> "get_image", from |-> "piece"]
                            ELSE cycle
                /\ piece_in_progress' = (pip /\ (s1b \/ ~due \/ s2))
                /\ waiting_for_sensor2' =
                      IF pip /\ ~s1b THEN ~due \/ s2 ELSE wait
                /\ sensor2_check_time' =
                      IF pip /\ ~s1b
                      THEN IF due /\ s2 THEN s2t
                           ELSE Elapse(s2t, SENSOR2_WAIT_TIME_MS + UI_REFRESH_RATE_MS)
                      ELSE Elapse(sensor2_check_time,
                                  SENSOR2_WAIT_TIME_MS + UI_REFRESH_RATE_MS)
    /\ AsyncFrame

\* _process_piece resumes from an await (get_image, then send_for_analysis)
\* with a result, with nothing, on the 30 s timeout or on an exception, and
\* the cycle that awaited it goes on to its end (lines 78-79, line 144)
ProcessPieceResumes(r) ==
    /\ cycle.at # "sleep"
    /\ IF cycle.at = "get_image" /\ r = "ok"
       THEN /\ cycle' = [cycle EXCEPT !.at = "analysis"]
            /\ UNCHANGED <<processing_active, piece_in_progress,
                           waiting_for_sensor2, error_state, ui_alert,
                           sensor2_check_time>>
       ELSE /\ cycle' = [at |-> "sleep", from |-> "none"]
            /\ processing_active' = FALSE
            /\ ui_alert' = CASE r = "timeout" -> "Operation timed out"
                              [] r = "error" \/ (r = "none" /\ cycle.at = "get_image")
                                    -> "Processing error"
                              [] OTHER -> ui_alert
            /\ piece_in_progress' = (cycle.from # "piece" /\ piece_in_progress)
            /\ waiting_for_sensor2' = (cycle.from # "piece" /\ waiting_for_sensor2)
            /\ error_state' = (cycle.from # "recovery" /\ error_state)
            /\ sensor2_check_time' =
                  IF sensor2_check_time = NoTime THEN NoTime
                  ELSE SENSOR2_WAIT_TIME_MS + UI_REFRESH_RATE_MS
    /\ UNCHANGED solenoid_state
    /\ AsyncFrame

InitAsync == CtrlInit /\ ObsInit("none") /\ PolicyIdle /\ LibIdle

NextAsync ==
    \/ \E s1, s1b, s2 \in BOOLEAN : ProcessCycle(s1, s1b, s2)
    \/ \E r \in {"ok", "none", "timeout", "error"} : ProcessPieceResumes(r)

SpecAsync == InitAsync /\ [][NextAsync]_vars

\* ------------------------------------------------------------------ claims

\* C1: at most one process_piece thread is alive in every reachable state,
\* whatever the interleaving of loop iterations and thread statements and
\* whichever branch of _handle_piece_processing asks for the thread.
C1_AtMostOneTask == Cardinality(AliveThreads) <= 1

\* a tick asked for a thread while the last one started was still alive
C1_SpawnRefused == spawnRefused /\ Cardinality(AliveThreads) = 1

\* C2: the ejector output stays asserted for at least EJECTION_TIME_MS, and
\* it is de-asserted at the latest by the tick that comes one tick period
\* after EJECTION_TIME_MS has elapsed since it was asserted.
C2_EjectorPulse ==
    /\ lastEjectorPulse # NoTime => lastEjectorPulse >= EJECTION_TIME_MS
    /\ ejection_state => ejectorOnFor <= EJECTION_TIME_MS + UI_REFRESH_RATE_MS

\* C3: when get_image succeeded and analyze_image gave no result, the thread
\* reaches its finally clause with an ejection cycle started and the ejector
\* asserted.
C3_AnalysisFailureEjects ==
    \A t \in Threads :
        tpc[t] = "s226" /\ texc[t] = "analysis"
            => ejection_in_progress /\ ejection_state

\* C4: the solenoid is on only on account of a sensor1 interval that has
\* lasted SOLENOID_START_DELAY_MS: while sensor1 is high, it has been high
\* that long; after the release, the interval that ended was that long.
\* Stated for the intervals whose every tick reached the edge tracking.
C4_NoActivationForShortPulse ==
    edgesTracked /\ solenoid_state
        => \/ sensor1 /\ s1HighFor >= SOLENOID_START_DELAY_MS
           \/ ~sensor1 /\ lastHighLong

\* C5: when the thread ends (its last statement, line 231, has run), on any
\* path through process_piece, analysis_in_progress is false, the UI state
\* is 'normal' and the alert is None.
C5_TaskEndsReset ==
    [][\A t \in Threads :
          tpc[t] # "none" /\ tpc'[t] = "none"
              => ~analysis_in_progress' /\ ui_state' = "normal" /\ ui_alert' = "None"]_vars

\* C6: whenever solenoid_locked is true, a later state has solenoid_locked
\* false and processing_complete true.
C6_LockReleased == solenoid_locked ~> (~solenoid_locked /\ processing_complete)

\* a thread has locked the solenoid, ended by an exception, and the lock is
\* released with processing_complete set
C6_ReleasedAfterException ==
    \E t \in Threads :
        /\ tpc[t] = "s230"
        /\ texc[t] # "None"
        /\ ~solenoid_locked
        /\ processing_complete

\* C7: once cleanup has run GPIOController.cleanup, the solenoid output and
\* the ejector output are both off.
C7_OutputsOffAfterShutdown ==
    lpc = "done" => ~solenoid_state /\ ~ejection_state

\* the ejection rule as C8 states it
ClaimedPolicy(res, th) ==
    \/ \E i \in DOMAIN res.predictions :
          /\ res.predictions[i].confidence >= th.confidence_min
          /\ res.predictions[i].area >= th.area_max
    \/ res.severity_counts["critical"] >= th.critical_count
    \/ res.severity_counts["major"] >= th.major_count
    \/ SumCounts(res.severity_counts, Severities) >= th.total_defects

\* C8 as stated: for results with a prediction list, _has_imperfections
\* returns eject exactly when some prediction has confidence >=
\* confidence_min and area >= area_max, or the critical count >=
\* critical_count, or the major count >= major_count, or the total >=
\* total_defects.
C8_PolicyAsClaimed ==
    decision # "unset" /\ results.present
        => (decision = "eject" <=> ClaimedPolicy(results, thresholds))

\* the ejection rule with the comparisons of the code
StrictPolicy(res, th) ==
    \/ ~res.present
    \/ \E i \in DOMAIN res.predictions :
          \/ res.predictions[i].confidence > th.confidence_min
          \/ res.predictions[i].area > th.area_max
    \/ res.severity_counts["critical"] > th.critical_count
    \/ res.severity_counts["major"] > th.major_count
    \/ SumCounts(res.severity_counts, Severities) >= th.total_defects

\* C8 amended: _has_imperfections returns eject exactly when there are no
\* results, or some prediction has confidence > confidence_min or area >
\* area_max, or the critical count > critical_count, or the major count >
\* major_count, or the total >= total_defects.
C8_PolicyStrict ==
    decision # "unset"
        => (decision = "eject" <=> StrictPolicy(results, thresholds))

\* a piece passes although it has a critical prediction at the confidence
\* and area thresholds
C8_PassAtThresholds ==
    /\ decision = "pass"
    /\ \E i \in DOMAIN results.predictions :
          /\ results.predictions[i].confidence = thresholds.confidence_min
          /\ results.predictions[i].area = thresholds.area_max
          /\ results.predictions[i].severity = "critical"

\* C9: with the shipped thresholds, results with at least one prediction,
\* counted in their summary, are ejected.
C9_ShippedThresholdsEject ==
    /\ decision # "unset"
    /\ thresholds = EJECTION_THRESHOLDS
    /\ results.present
    /\ Len(results.predictions) >= 1
    /\ results.severity_counts = SummarizePredictions(results.predictions)
    => decision = "eject"

\* ejected under the shipped thresholds on the total alone: one minor
\* prediction, not over the confidence or the area threshold
C9_EjectedOnTotalAlone ==
    /\ decision = "eject"
    /\ thresholds = EJECTION_THRESHOLDS
    /\ Len(results.predictions) = 1
    /\ results.predictions[1].severity = "minor"
    /\ ~AnyPredictionOver(results.predictions, thresholds)

\* C10: over a sensor1 interval whose every tick reached the edge tracking
\* (controller unlocked, no ejection cycle), the solenoid is on while
\* sensor1 is high exactly once it has been high for
\* SOLENOID_START_DELAY_MS, and after the release of an interval that long
\* exactly while sensor1 has been low for less than SOLENOID_DELAY_MS.
C10_DebouncedSolenoid ==
    edgesTracked
        => /\ sensor1 => (solenoid_state <=> s1HighFor >= SOLENOID_START_DELAY_MS)
           /\ ~sensor1 /\ lastHighLong
                  => (solenoid_state <=> s1LowFor < SOLENOID_DELAY_MS)

\* a tracked interval of at least SOLENOID_START_DELAY_MS has ended, the
\* hold has run out and the solenoid is off again
C10_HoldExpired ==
    /\ edgesTracked
    /\ ~sensor1
    /\ lastHighLong
    /\ s1LowFor = SOLENOID_DELAY_MS
    /\ ~solenoid_state

\* the step is one loop iteration: no thread executes a statement in it
TickTaken == \A t \in Threads : tpc[t] = "none" \/ tpc'[t] = tpc[t]

\* the tick reaches _handle_piece_processing
HandlerCalled ==
    /\ lpc = "run"
    /\ ~ejection_in_progress
    /\ ~post_ejection_delay
    /\ ~solenoid_locked
    /\ processing_complete

\* C11: a tick in state 'normal' with a piece in progress, sensor1 low, the AI
\* switch off, sensor2 low and more than SENSOR2_WAIT_TIME elapsed since the
\* wait began sets the alert "No piece fell in slot!" and the state
\* 'error_recovery', clears piece_in_progress and waiting_for_sensor2, and
\* starts no thread.
C11_NoPieceAlert ==
    [][/\ TickTaken
       /\ HandlerCalled
       /\ ui_state = "normal"
       /\ piece_in_progress
       /\ waiting_for_sensor2
       /\ sensor2_check_time > SENSOR2_WAIT_TIME_MS
       /\ ~in_s1' /\ ~in_s2' /\ ~in_ai'
       => /\ ui_alert' = "No piece fell in slot!"
          /\ ui_state' = "error_recovery"
          /\ ~piece_in_progress'
          /\ ~waiting_for_sensor2'
          /\ tpc' = tpc]_vars

\* the controller is in error recovery with the alert up, after a tick that
\* read sensor1, sensor2 and the AI switch low
C11_InErrorRecovery ==
    /\ probe = "inputs"
    /\ ui_state = "error_recovery"
    /\ ui_alert = "No piece fell in slot!"
    /\ ~in_s1 /\ ~in_s2 /\ ~in_ai
    /\ ~piece_in_progress
    /\ ~waiting_for_sensor2

\* C12: a tick that reads the AI switch on and sensor1 low completes a piece
\* in progress in state 'normal' (piece_in_progress false,
\* processing_complete true) and starts no thread; in state 'error_recovery'
\* with sensor2 high it starts no thread either.
C12_AiSwitchSkips ==
    [][/\ TickTaken
       /\ HandlerCalled
       /\ in_ai' /\ ~in_s1'
       => /\ ui_state = "normal" /\ piece_in_progress
                => ~piece_in_progress' /\ processing_complete' /\ tpc' = tpc
          /\ ui_state = "error_recovery" /\ in_s2' => tpc' = tpc]_vars

\* a tick with the AI switch on has completed a piece whose sensor2 wait
\* had begun
C12_PieceSkipped ==
    /\ in_ai /\ ~in_s1
    /\ ui_state = "normal"
    /\ ~piece_in_progress
    /\ waiting_for_sensor2
    /\ processing_complete
    /\ AliveThreads = {}

\* C13: a tick that raises adds one to total_errors and one alert message,
\* and leaves the loop running; a tick that does not raise adds none.
C13_FaultCounted ==
    [][TickTaken /\ lpc = "run" /\ total_errors < MaxErrors
       => IF faulted'
          THEN /\ total_errors' = total_errors + 1
               /\ error_alerts' = error_alerts + 1
               /\ running' /\ lpc' = "run"
          ELSE total_errors' = total_errors /\ error_alerts' = error_alerts]_vars

\* ticks have raised MaxErrors times and the loop is running
C13_ErrorsCounted ==
    /\ faulted
    /\ total_errors = MaxErrors
    /\ error_alerts = MaxErrors
    /\ running /\ lpc = "run"

PutFits == last_op'.op = "put" /\ last_op' # last_op /\ Len(last_op'.data) <= MaxSize

\* the step is a call of put with data larger than the capacity
PutTooLarge == last_op'.op = "put" /\ last_op' # last_op /\ Len(last_op'.data) > MaxSize

\* the entries stored before the step that have not expired
Unexpired == SelectSeq(cache, LAMBDA e : e.age <= MaxAge)

RECURSIVE SumOfLengths(_)
SumOfLengths(c) ==
    IF c = <<>> THEN 0 ELSE Len(Head(c).data) + SumOfLengths(Tail(c))

\* the unexpired entries under other keys than the one put
Others == SelectSeq(Unexpired, LAMBDA e : e.key # last_op'.key)

\* the positions in Others of the entries the step evicts
Evicted == {i \in 1..Len(Others) : ~HasKey(cache', Others[i].key)}

Survivors == SelectSeq(Others, LAMBDA e : HasKey(cache', e.key))

Position(order, k) == CHOOSE i \in 1..Len(order) : order[i] = k

\* C15: get(k) right after put(k, b) with b no larger than the capacity
\* returns b; get(k) returns nothing when more than max_age has passed
\* since k was last stored.
C15_RoundTrip ==
    [][last_op'.op = "get"
       => /\ last_op.op = "put" /\ last_op.key = last_op'.key
                /\ Len(last_op.data) <= MaxSize
             => cache_ret' = [hit |-> TRUE, data |-> last_op.data]
          /\ since_put[last_op'.key] > MaxAge => ~cache_ret'.hit]_vars

\* get has returned data that fills the whole capacity
C15_FullBlobReturned ==
    /\ last_op.op = "get"
    /\ cache_ret.hit
    /\ Len(cache_ret.data) = MaxSize
    /\ since_put[last_op.key] = 0

\* C16: a put that fits evicts oldest-first and no more than needed: every
\* entry newer than an evicted one, the replaced key aside, survives; the
\* new entry would not fit if the newest evicted entry had stayed; nothing
\* is evicted when the new entry fits once the entry under its key is
\* replaced.
C16_MinimalEviction ==
    [][PutFits
       => /\ \A i \in Evicted : \A j \in 1..Len(Others) : j < i => j \in Evicted
          /\ \A i \in Evicted :
                (\A j \in Evicted : j <= i)
                   => SumOfLengths(Survivors) + Len(Others[i].data)
                        + Len(last_op'.data) > MaxSize
          /\ SumOfLengths(Others) + Len(last_op'.data) <= MaxSize
                => Evicted = {}]_vars

\* C17: current_size is the sum of the byte lengths of the stored entries,
\* and never more than max_size.
C17_ExactSize ==
    /\ current_size = SumOfLengths(cache)
    /\ current_size <= MaxSize

\* the cache is full with two entries after an unexpired entry was evicted
C17_FullAfterEviction ==
    /\ current_size = MaxSize
    /\ Len(cache) = 2
    /\ \E k \in Keys : since_put[k] \in 0..MaxAge /\ ~HasKey(cache, k)

\* C18 as stated: a put of data larger than the capacity stores nothing,
\* evicts no unexpired entry, leaves current_size unchanged and leaves
\* the unexpired entry under its key retrievable with its old data.
C18_RejectedLeavesSize ==
    [][PutTooLarge
       => /\ cache' = Unexpired
          /\ current_size' = current_size
          /\ HasKey(Unexpired, last_op'.key)
                => GetResult([cache |-> cache', current_size |-> current_size'],
                             last_op'.key).ret
                     = [hit |-> TRUE, data |-> Lookup(Unexpired, last_op'.key).data]]_vars

\* C18: a put of data larger than the capacity stores nothing, evicts no
\* unexpired entry, takes from current_size the sizes of the expired
\* entries it purges and nothing else, and leaves the unexpired entry
\* under its key retrievable with its old data.
C18_RejectedPurgesOnly ==
    [][PutTooLarge
       => /\ cache' = Unexpired
          /\ current_size' = SumOfLengths(Unexpired)
          /\ HasKey(Unexpired, last_op'.key)
                => GetResult([cache |-> cache', current_size |-> current_size'],
                             last_op'.key).ret
                     = [hit |-> TRUE, data |-> Lookup(Unexpired, last_op'.key).data]]_vars

\* a put too large for the capacity was rejected while the cache was full
\* and held an entry under the same key
C18_RejectedOnFullCache ==
    /\ last_op.op = "put"
    /\ Len(last_op.data) > MaxSize
    /\ HasKey(cache, last_op.key)
    /\ current_size = MaxSize

\* C19: a put that evicts an entry and keeps another evicts the one used
\* (stored or read by get) less recently.
C19_EvictsLeastRecentlyUsed ==
    [][PutFits
       => \A i \in Evicted : \A j \in 1..Len(Others) :
             j \notin Evicted
                => Position(use_order, Others[i].key)
                     < Position(use_order, Others[j].key)]_vars

\* C20: every check of internet, camera or ai_server, whether it succeeds
\* or fails, appends one snapshot of the status of that endpoint to the
\* connection history (dropping the oldest snapshot when the history is
\* full).
C20_EveryCheckAppends ==
    [][check_parity' # check_parity
       => LET snapshot == [endpoint |-> last_checked',
                           status |-> status'[last_checked']]
              appended == Append(connection_history, snapshot)
          IN  connection_history' = IF Len(appended) > MaxHistory
                                    THEN Tail(appended) ELSE appended]_vars

\* C21: after a check of an endpoint that succeeded its status is
\* Connected with error_count 0; after one that failed its status is
\* Disconnected with error_count the number of failed checks since the last
\* success; Connected never goes with a positive error_count.
C21_StatusFollowsChecks ==
    \A e \in Endpoints :
        /\ last_ok[e] = "ok"
              => status[e] = [status |-> "Connected", error_count |-> 0]
        /\ last_ok[e] = "fail"
              => status[e] = [status |-> "Disconnected", error_count |-> fail_run[e]]
        /\ status[e].status = "Connected" => status[e].error_count = 0

\* an endpoint is connected again after MaxFailures failed checks, while
\* another one has failed MaxFailures times in a row
C21_RecoveredAndFailing ==
    \E e, f \in Endpoints :
        /\ last_ok[e] = "ok"
        /\ \E i \in 1..Len(connection_history) :
              connection_history[i].status.error_count = MaxFailures
        /\ status[f].status = "Disconnected"
        /\ fail_run[f] = MaxFailures

\* the step is a loop iteration that calls check_all
TickChecksNetwork == TickTaken /\ lpc = "run" /\ check_parity' # check_parity

C23_TickMakesNoNetworkCall ==
    [][TickTaken => check_parity' = check_parity /\ status' = status]_vars

\* C24: while the processing task is in flight the controller is not
\* suspended inside a tick: the tick that started the task has returned,
\* and further ticks can run.
C24_TickNeverAwaitsTask ==
    processing_active
        => /\ cycle.at = "sleep"
           /\ ENABLED (\E s1, s1b, s2 \in BOOLEAN : ProcessCycle(s1, s1b, s2))

\* C25: shutdown goes through its steps in order: the run flag is cleared,
\* then the thread is joined (up to the timeout), then GPIOController.cleanup
\* turns the outputs off and releases the GPIO; the GPIO is released by no
\* step that comes before the end of the join.
C25_ShutdownOrder ==
    [][/\ lpc' # lpc
          => /\ <<lpc, lpc'>> \in {<<"run", "join">>, <<"join", "gpio_cleanup">>,
                                   <<"gpio_cleanup", "done">>}
             /\ ~running'
       /\ gpio_released' # gpio_released
          => lpc = "gpio_cleanup" /\ gpio_released' /\ ~running
       /\ lpc \in {"run", "join"} => ~gpio_released]_vars

\* the join has timed out: the GPIO is released with a thread in flight
C25_ReleasedAfterTimeout ==
    /\ lpc = "done"
    /\ gpio_released
    /\ ~running
    /\ AliveThreads # {}

C27_EjectionTickFrame ==
    [][TickTaken /\ lpc = "run" /\ (ejection_in_progress \/ post_ejection_delay)
          => /\ check_parity' = check_parity
             /\ network_checks' = network_checks
             /\ status' = status
             /\ connection_history' = connection_history
             /\ ~in_s1' /\ ~in_s2' /\ ~in_ai'
             /\ solenoid_state' = solenoid_state
             /\ tpc' = tpc
             /\ UNCHANGED <<piece_in_progress, waiting_for_sensor2, ui_state,
                            last_sensor1_state>>
             /\ solenoid_activation_time'
                   = Age(solenoid_activation_time, SOLENOID_START_DELAY_MS,
                         last_sensor1_state)
             /\ solenoid_deactivation_time'
                   = Age(solenoid_deactivation_time, SOLENOID_DELAY_MS,
                         ~last_sensor1_state)
             /\ sensor2_check_time'
                   = Age(sensor2_check_time,
                         SENSOR2_WAIT_TIME_MS + UI_REFRESH_RATE_MS,
                         waiting_for_sensor2)]_vars

\* ticks have gone by in the post-ejection delay with a network check due
\* and not made
C27_CheckDueInPostDelay ==
    /\ post_ejection_delay
    /\ ~ejection_in_progress
    /\ post_ejection_start_time >= 3 * UI_REFRESH_RATE_MS
    /\ last_network_check = "old"
    /\ network_checks = 0

\* C28: ejection_in_progress and post_ejection_delay are never both set,
\* in any interleaving of the loop and the threads: the ejection cycle is
\* idle, ejecting or in its post-ejection delay.
C28_OneEjectionPhase == ~(ejection_in_progress /\ post_ejection_delay)

\* the post-ejection delay runs while the thread that started the ejection
\* is still in flight
C28_PostDelayWithThreadAlive ==
    /\ post_ejection_delay
    /\ ~ejection_in_progress
    /\ AliveThreads # {}

\* C29: for an ejected piece the lock is held through the whole ejection
\* cycle: while ejection_in_progress or post_ejection_delay is set,
\* solenoid_locked is set and processing_complete is not, so that only the
\* tick that finds the post-ejection delay elapsed unlocks.
C29_LockedThroughEjectionCycle ==
    ejection_in_progress \/ post_ejection_delay
        => solenoid_locked /\ ~processing_complete

\* C30: no step of a processing thread writes ejection_in_progress,
\* ejection_start_time, post_ejection_delay, solenoid_locked or
\* processing_complete: only loop iterations change them.
C30_ThreadWritesNoCycleState ==
    [][~TickTaken
          => UNCHANGED <<ejection_in_progress, ejection_start_time,
                         post_ejection_delay, solenoid_locked,
                         processing_complete>>]_vars

\* C31: a tick that reaches the lock check with solenoid_locked set writes
\* the solenoid off, leaves the piece detection and the edge tracking
\* alone, and the "please wait" message is written at most once while the
\* lock stays set.
C31_LockedTick ==
    [][/\ TickTaken /\ lpc = "run" /\ solenoid_locked
             /\ ~ejection_in_progress /\ ~post_ejection_delay
          => /\ ~solenoid_state'
             /\ UNCHANGED <<piece_in_progress, waiting_for_sensor2, ui_state,
                            last_sensor1_state>>
             /\ tpc' = tpc
       /\ warnings' <= 1]_vars

\* C32: a tick that calls _handle_piece_processing in state 'error_recovery'
\* (so unlocked): with sensor1 high it clears the alert, returns to 'normal'
\* and sets piece_in_progress; otherwise with sensor2 high it returns to
\* 'normal' with piece_in_progress false, and starts a thread exactly when
\* the AI switch is off and no thread is alive; with both sensors low it
\* stays in 'error_recovery'.
C32_ErrorRecovery ==
    [][/\ TickTaken
       /\ HandlerCalled
       /\ ui_state = "error_recovery"
       => IF in_s1'
          THEN /\ ui_alert' = "None"
               /\ ui_state' = "normal"
               /\ piece_in_progress'
               /\ ~waiting_for_sensor2'
               /\ tpc' = tpc
          ELSE IF in_s2'
          THEN /\ ui_state' = "normal"
               /\ ~piece_in_progress'
               /\ ~waiting_for_sensor2'
               /\ ui_alert' = ui_alert
               /\ (tpc' # tpc) = (~in_ai' /\ CanSpawn)
          ELSE /\ ui_state' = "error_recovery"
               /\ tpc' = tpc
               /\ UNCHANGED <<piece_in_progress, waiting_for_sensor2,
                              ui_alert>>]_vars

\* the error recovery was ended by sensor2 with the AI switch on: back in
\* 'normal', the alert still up, no thread started
C32_RecoveredWithoutThread ==
    /\ in_s2 /\ in_ai /\ ~in_s1
    /\ ui_state = "normal"
    /\ ui_alert = "No piece fell in slot!"
    /\ ~piece_in_progress
    /\ AliveThreads = {}

\* C33: a network check that is due stays due through the ticks of the
\* ejection cycle, which return before it, and the first tick that starts
\* with neither ejection_in_progress nor post_ejection_delay calls
\* check_all and stamps last_network_check.
C33_CheckDelayedNotSkipped ==
    [][TickTaken /\ lpc = "run" /\ last_network_check = "old"
          => IF ejection_in_progress \/ post_ejection_delay
             THEN /\ last_network_check' = "old"
                  /\ check_parity' = check_parity
             ELSE /\ last_network_check' = "recent"
                  /\ check_parity' # check_parity
                  /\ network_checks' = network_checks + 1
                  /\ last_checked' = "ai_server"]_vars

\* check_all has been called by a tick that follows an ejection cycle
C33_CheckedAfterEjection ==
    /\ network_checks = 1
    /\ last_network_check = "recent"
    /\ post_ejection_start_time # NoTime
    /\ ~ejection_in_progress
    /\ ~post_ejection_delay
    /\ ~solenoid_locked

\* C34: the connection history never holds more than MAX_HISTORY snapshots;
\* the snapshot that check_internet appends to a full history takes the
\* last place, the oldest
\* snapshot is dropped and the others move up in their order; appended to
\* a history that is not full it leaves the others where they were.
C34_BoundedHistory ==
    [][/\ Len(connection_history') <= MaxHistory
       /\ check_parity' # check_parity /\ last_checked' = "internet"
          => /\ Len(connection_history')
                   = Min(Len(connection_history) + 1, MaxHistory)
             /\ \A i \in 1..(Len(connection_history') - 1) :
                   connection_history'[i] =
                       IF Len(connection_history) = MaxHistory
                       THEN connection_history[i + 1]
                       ELSE connection_history[i]
             /\ connection_history'[Len(connection_history')]
                   = [endpoint |-> "internet", status |-> status'["internet"]]]_vars

\* a full history whose oldest snapshot has MaxFailures failures: the
\* snapshots of the failures before it have been dropped
C34_OldestDropped ==
    /\ Len(connection_history) = MaxHistory
    /\ connection_history[1].status.error_count = MaxFailures
    /\ connection_history[MaxHistory].status.status = "Connected"

\* C35: the ejector output is asserted only while ejection_in_progress is
\* set, in every interleaving of the thread and the loop.
C35_EjectorOnlyWhileEjecting == ejection_state => ejection_in_progress

\* C36: a tick that writes the solenoid on with sensor1 high comes after
\* sensor1 has been high for SOLENOID_START_DELAY_MS without a break, also
\* when ticks before it were locked or in the ejection cycle.
C36_SolenoidAfterStartDelay ==
    [][/\ TickTaken /\ lpc = "run"
       /\ ~ejection_in_progress /\ ~post_ejection_delay /\ ~solenoid_locked
       /\ sensor1' /\ solenoid_state'
       => s1HighFor' >= SOLENOID_START_DELAY_MS]_vars

\* C37: a tick in state 'normal' that evaluates sensor2 for a piece (it
\* raises the "No piece fell in slot!" alert, or starts the thread or finds
\* one alive) comes when sensor1 has been low for SENSOR2_WAIT_TIME without
\* a break, that is, after its most recent release.
C37_Sensor2AfterLastRelease ==
    [][/\ TickTaken
       /\ HandlerCalled
       /\ ui_state = "normal"
       /\ ui_state' = "error_recovery" \/ tpc' # tpc \/ spawnRefused'
       => s1LowFor' >= SENSOR2_WAIT_TIME_MS]_vars

C39_FreshImage ==
    last_op.op = "get_image" /\ cache_ret.data # <<>>
        => ~cache_ret.hit /\ cache_ret.data = last_op.data

\* C40: under the shipped thresholds a well-formed analysis result with no
\* predictions and empty severity counts is passed: process_piece goes on to
\* line 211, sets processing_complete, then clears solenoid_locked, and
\* neither statement touches the ejector.
C40_EmptyResultPasses ==
    [][\A t \in Threads :
         /\ (/\ tpc[t] = "analyze"
             /\ tpc'[t] \in {"s204", "s211"}
             /\ thresholds = EJECTION_THRESHOLDS
             /\ results'.present
             /\ results'.predictions = <<>>
             /\ \A sev \in Severities : results'.severity_counts[sev] = 0)
            => tpc'[t] = "s211"
         /\ (tpc[t] = "s211" /\ tpc'[t] = "s212")
            => /\ processing_complete'
               /\ ejection_state' = ejection_state
               /\ ejection_in_progress' = ejection_in_progress
         /\ (tpc[t] = "s212" /\ tpc'[t] # "s212")
            => /\ ~solenoid_locked'
               /\ processing_complete' = processing_complete
               /\ ejection_state' = ejection_state
               /\ ejection_in_progress' = ejection_in_progress]_vars

\* a piece whose analysis found nothing has been passed: complete, unlocked,
\* the ejector at rest
C40_PassedWithNoPredictions ==
    /\ tpc[1] = "s226"
    /\ \A u \in Threads \ {1} : tpc[u] = "none"
    /\ texc[1] = "None"
    /\ results.present
    /\ results.predictions = <<>>
    /\ processing_complete
    /\ ~solenoid_locked
    /\ ~ejection_state
    /\ ~ejection_in_progress

====
